---------------------------- MODULE Spec2Model ----------------------------
(***************************************************************************)
(* Model of the Lifepath360 diagnostic backend: the stored assessments,    *)
(* responses and payments, the REST operations that change them, the       *)
(* analyze and detailed-report views, and the scoring and profiling engine *)
(* LearningStyleAnalyzer (aggregate, normalize, rank, infer the ideal      *)
(* environment, generate tips).                                            *)
(*                                                                         *)
(* Numbers.  Impact weights are the integers an author stores; raw totals  *)
(* are their sums.  A normalized score round(x, 1) is a multiple of 0.1    *)
(* and is held here as its number of tenths (10.0 is 100, 2.5 is 25).  An  *)
(* environment score is a sum of products of a score and a weight 0.p and  *)
(* is held in hundredths (8.7 is 870), so the thresholds 7 and 5 are 700   *)
(* and 500.                                                                *)
(***************************************************************************)
EXTENDS Integers, Sequences, FiniteSets, TLC

VARIABLES
    assessments,   \* Assessment table: id -> [student, status], existing rows only
    nextId,        \* the next auto-increment id of the Assessment table
    responses,     \* Response rows of each assessment id, in row order
    result,        \* the last analyze_assessment call, [arg, ret, calls], until
                   \* the next request is served; calls tells a first call
                   \* (1) from a repeated one (2)
    frame,         \* a call of one helper of the engine on its own, or a
                   \* request to a view and its response: [fn, args, ret]
    payments       \* Payment table: the rows by id, in creation order

vars == <<assessments, nextId, responses, result, frame, payments>>

---------------------------------------------------------------------------
(* Bounds of the model *)

MaxAssessments == 2
MaxResponses == 2
MaxRaw == 8
MaxPayments == 2

(* Program constants *)

ScaleTop == 100
StructureLogicalWeight == 7
StructureOrganizationWeight == 3
SocialStyleWeight == 6
SocialCollaborationWeight == 4
PaceIndependenceWeight == 5
PaceAdaptabilityWeight == 5
FeedbackConfidenceWeight == 7
FeedbackRiskWeight == 3
HighThreshold == 700
MidThreshold == 500

AssessmentIds == 1 .. MaxAssessments

None == "None"

---------------------------------------------------------------------------
(* The stored data the engine reads *)

IN_PROGRESS == "IN_PROGRESS"
COMPLETED == "COMPLETED"
ABANDONED == "ABANDONED"
Status == {IN_PROGRESS, COMPLETED, ABANDONED}

LEARNING_STYLES ==
    {"visual", "auditory", "kinesthetic", "logical", "social", "solitary"}

COGNITIVE_STRENGTHS ==
    {"memory", "attention", "problem_solving", "creativity",
     "critical_thinking", "spatial_reasoning", "verbal_reasoning",
     "numerical_reasoning"}

\* users.User rows: the role by user.
Users ==
    ("admin" :> "ADMIN") @@ ("teacher" :> "TEACHER") @@ ("parent1" :> "PARENT")
    @@ ("parent2" :> "PARENT") @@ ("student1" :> "STUDENT")

\* users.Student rows: the fields the profile copies, the student's own
\* user and the user of the student's parent.
Students ==
    [s \in {1} |-> [first_name |-> "Ada", last_name |-> "Lee", grade |-> "G5",
                    user |-> "student1", parent |-> "parent1"]]

\* Question rows: question_type by id.
Questions ==
    (1 :> "MULTIPLE_CHOICE") @@ (2 :> "SITUATIONAL") @@ (3 :> "OPEN_ENDED")

\* One entry of a JSON impact mapping.  num says whether float(v) succeeds:
\* a JSONField holds any JSON value, and the entry with num = FALSE stands
\* for a stored string such as "high".
W(key, val) == [k |-> key, v |-> val, num |-> TRUE]
Bad(key) == [k |-> key, v |-> 0, num |-> FALSE]

\* QuestionOption rows.  An impact mapping is a JSON object, held as the
\* sequence of its entries in the object's iteration order.
NoOption == 0
QuestionOptions ==
    (1 :> [question |-> 1,
           learning_style_impact |-> <<W("visual", 8), W("auditory", 2)>>,
           cognitive_impact |-> <<>>,
           behavior_impact |-> <<>>,
           interest_impact |-> <<>>]) @@
    (2 :> [question |-> 1,
           learning_style_impact |-> <<W("auditory", 6), W("logical", 3)>>,
           cognitive_impact |-> <<W("spatial_reasoning", 4), W("memory", 4)>>,
           behavior_impact |-> <<W("confidence", 2), W("risk_taking", 5),
                                 W("organization", 5)>>,
           interest_impact |-> <<W("math", 1)>>]) @@
    (3 :> [question |-> 2,
           learning_style_impact |-> <<W("visual", 0)>>,
           cognitive_impact |-> <<W("telepathy", 2)>>,
           behavior_impact |-> <<>>,
           interest_impact |-> <<W("arts", 0), W("math", 0)>>]) @@
    (4 :> [question |-> 2,
           learning_style_impact |-> <<Bad("visual")>>,
           cognitive_impact |-> <<W("memory", 1)>>,
           behavior_impact |-> <<>>,
           interest_impact |-> <<>>]) @@
    (5 :> [question |-> 3,
           learning_style_impact |-> <<W("kinesthetic", 4)>>,
           cognitive_impact |-> <<>>,
           behavior_impact |-> <<>>,
           interest_impact |-> <<W("arts", 3)>>]) @@
    \* option 2 as it is stored after an edit of one of its four mappings
    (6 :> [question |-> 1,
           learning_style_impact |-> <<W("auditory", 6), W("logical", 9)>>,
           cognitive_impact |-> <<W("spatial_reasoning", 4), W("memory", 4)>>,
           behavior_impact |-> <<W("confidence", 2), W("risk_taking", 5),
                                 W("organization", 5)>>,
           interest_impact |-> <<W("math", 1)>>]) @@
    (7 :> [question |-> 1,
           learning_style_impact |-> <<W("auditory", 6), W("logical", 3)>>,
           cognitive_impact |-> <<W("memory", 7)>>,
           behavior_impact |-> <<W("confidence", 2), W("risk_taking", 5),
                                 W("organization", 5)>>,
           interest_impact |-> <<W("math", 1)>>]) @@
    (8 :> [question |-> 1,
           learning_style_impact |-> <<W("auditory", 6), W("logical", 3)>>,
           cognitive_impact |-> <<W("spatial_reasoning", 4), W("memory", 4)>>,
           behavior_impact |-> <<W("confidence", 7), W("independence", 3)>>,
           interest_impact |-> <<W("math", 1)>>]) @@
    (9 :> [question |-> 1,
           learning_style_impact |-> <<W("auditory", 6), W("logical", 3)>>,
           cognitive_impact |-> <<W("spatial_reasoning", 4), W("memory", 4)>>,
           behavior_impact |-> <<W("confidence", 2), W("risk_taking", 5),
                                 W("organization", 5)>>,
           interest_impact |-> <<W("arts", 5), W("math", 2)>>]) @@
    (10 :> [question |-> 1,
            learning_style_impact |-> <<W("auditory", 6), W("logical", 3)>>,
            cognitive_impact |-> <<W("spatial_reasoning", 4), W("memory", 4)>>,
            behavior_impact |-> <<W("confidence", 2), W("risk_taking", 5),
                                  W("organization", 5)>>,
            interest_impact |-> <<Bad("math")>>])

OptionIds == DOMAIN QuestionOptions

\* A Response row.
ResponseRow(q, o, text) ==
    [question |-> q, selected_option |-> o, open_response |-> text]

---------------------------------------------------------------------------
(* Score mappings: Python dicts, held as sequences of [k, v] in insertion  *)
(* order                                                                   *)

Keys(m) == {m[i].k : i \in 1 .. Len(m)}

Has(m, key) == key \in Keys(m)

Get(m, key) == LET i == CHOOSE j \in 1 .. Len(m) : m[j].k = key IN m[i].v

\* scores[key] = value: the weight stored, not added
SetTo(m, key, value) ==
    IF Has(m, key)
    THEN [i \in 1 .. Len(m) |->
            IF m[i].k = key THEN [k |-> key, v |-> value] ELSE m[i]]
    ELSE Append(m, [k |-> key, v |-> value])

\* scores[key] += value on a defaultdict(float)
AddTo(m, key, value) ==
    IF Has(m, key)
    THEN [i \in 1 .. Len(m) |->
            IF m[i].k = key THEN [k |-> key, v |-> m[i].v + value] ELSE m[i]]
    ELSE Append(m, [k |-> key, v |-> value])

\* for key, score in impact.items(): scores[key] += float(score)
RECURSIVE AddImpact(_, _)
AddImpact(m, impact) ==
    IF impact = <<>> THEN m
    ELSE AddImpact(AddTo(m, Head(impact).k, Head(impact).v), Tail(impact))

\* float(score) raises for an entry that is no number
ImpactRaises(impact) == \E i \in 1 .. Len(impact) : ~impact[i].num

Dimensions ==
    <<"learning_style_impact", "cognitive_impact", "behavior_impact",
      "interest_impact">>

\* the fresh accumulator of one call
NewScores == <<>>

\* the loop over the responses, for one impact field
RECURSIVE Aggregate(_, _, _)
Aggregate(m, rs, field) ==
    IF rs = <<>> THEN m
    ELSE LET r == Head(rs) IN
         IF r.selected_option = NoOption
         THEN Aggregate(m, Tail(rs), field)
         ELSE Aggregate(AddImpact(m, QuestionOptions[r.selected_option][field]),
                        Tail(rs), field)

\* some float(score) of the loop raises
AggregateRaises(rs) ==
    \E i \in 1 .. Len(rs) :
        /\ rs[i].selected_option # NoOption
        /\ \E d \in 1 .. Len(Dimensions) :
              ImpactRaises(QuestionOptions[rs[i].selected_option][Dimensions[d]])

---------------------------------------------------------------------------
(* _normalize_scores *)

MaxValue(m) == CHOOSE x \in {m[i].v : i \in 1 .. Len(m)} :
                  \A i \in 1 .. Len(m) : m[i].v <= x

\* a raw float as a number of tenths
Tenths(value) == value * 10

\* round((value / max_score) * 10): no decimal kept
RoundToInteger(value, max) == ((2 * value * 10 + max) \div (2 * max)) * 10

\* round((value / max_score) * 10, 1), in tenths.  Python rounds the double
\* to the nearest tenth, and an exact half to the even tenth (1/8 gives
\* 1.25 and 1.2); for every 0 <= value <= max_score < 200 this is the
\* half-even rounding of the exact quotient.
Round1(value, max) ==
    LET n == value * 100
        q == n \div max
        r == n % max
    IN  IF 2 * r > max \/ (2 * r = max /\ q % 2 = 1) THEN q + 1 ELSE q

\* the normalizer with the max == 0 branch returning an empty dict
NormalizeZeroToEmpty(scores_dict) ==
    IF scores_dict = <<>> THEN <<>>
    ELSE LET max_score == MaxValue(scores_dict) IN
         IF max_score = 0
         THEN <<>>
         ELSE [i \in 1 .. Len(scores_dict) |->
                 [k |-> scores_dict[i].k,
                  v |-> Round1(scores_dict[i].v, max_score)]]

_normalize_scores(scores_dict) ==
    IF scores_dict = <<>> THEN <<>>
    ELSE LET max_score == MaxValue(scores_dict) IN
         IF max_score = 0
         THEN [i \in 1 .. Len(scores_dict) |->
                 [k |-> scores_dict[i].k, v |-> Tenths(scores_dict[i].v)]]
         ELSE [i \in 1 .. Len(scores_dict) |->
                 [k |-> scores_dict[i].k,
                  v |-> Round1(scores_dict[i].v, max_score)]]

---------------------------------------------------------------------------
(* _get_primary_secondary *)

\* the place of e in a list sorted by descending value: after every entry
\* whose value is >= e.v (sorted() is stable, also with reverse=True)
\* the place of e before the entries whose value equals e.v: a sort that
\* is not stable
RECURSIVE InsertBeforeEqual(_, _)
InsertBeforeEqual(sorted, e) ==
    IF sorted = <<>> THEN <<e>>
    ELSE IF Head(sorted).v > e.v
         THEN <<Head(sorted)>> \o InsertBeforeEqual(Tail(sorted), e)
         ELSE <<e>> \o sorted

RECURSIVE InsertDescending(_, _)
InsertDescending(sorted, e) ==
    IF sorted = <<>> THEN <<e>>
    ELSE IF Head(sorted).v >= e.v
         THEN <<Head(sorted)>> \o InsertDescending(Tail(sorted), e)
         ELSE <<e>> \o sorted

RECURSIVE InsertAscending(_, _)
InsertAscending(sorted, e) ==
    IF sorted = <<>> THEN <<e>>
    ELSE IF Head(sorted).v <= e.v
         THEN <<Head(sorted)>> \o InsertAscending(Tail(sorted), e)
         ELSE <<e>> \o sorted

RECURSIVE SortedAscending(_)
SortedAscending(m) ==
    IF m = <<>> THEN <<>>
    ELSE InsertAscending(SortedAscending(SubSeq(m, 1, Len(m) - 1)), m[Len(m)])

\* sorted(scores_dict.items(), key=lambda x: x[1], reverse=True)
RECURSIVE SortedScores(_)
SortedScores(m) ==
    IF m = <<>> THEN <<>>
    ELSE InsertDescending(SortedScores(SubSeq(m, 1, Len(m) - 1)), m[Len(m)])

_get_primary_secondary(scores_dict) ==
    IF scores_dict = <<>> THEN <<None, None>>
    ELSE LET sorted_scores == SortedScores(scores_dict) IN
         <<IF Len(sorted_scores) > 0 THEN sorted_scores[1].k ELSE None,
           IF Len(sorted_scores) > 1 THEN sorted_scores[2].k ELSE None>>

---------------------------------------------------------------------------
(* _determine_ideal_environment *)

\* scores[key] * 0.w when the key is in the mapping, else nothing is added
Term(m, key, weight) == IF Has(m, key) THEN Get(m, key) * weight ELSE 0

\* the term without the inversion: scores[key] * 0.w
PlainTerm(m, key, weight) == Term(m, key, weight)

\* (10 - scores.get(key, 0)) * 0.w: the inversion applied to an absent key
InvertedTermOfDefault(m, key, weight) ==
    (ScaleTop - (IF Has(m, key) THEN Get(m, key) ELSE 0)) * weight

\* (10 - scores[key]) * 0.w when the key is in the mapping
InvertedTerm(m, key, weight) ==
    IF Has(m, key) THEN (ScaleTop - Get(m, key)) * weight ELSE 0

structure_score(learning_style_scores, behavior_pattern_scores) ==
    Term(learning_style_scores, "logical", StructureLogicalWeight)
    + Term(behavior_pattern_scores, "organization", StructureOrganizationWeight)

social_score(learning_style_scores, behavior_pattern_scores) ==
    Term(learning_style_scores, "social", SocialStyleWeight)
    + Term(behavior_pattern_scores, "collaboration", SocialCollaborationWeight)

pace_score(behavior_pattern_scores) ==
    Term(behavior_pattern_scores, "independence", PaceIndependenceWeight)
    + Term(behavior_pattern_scores, "adaptability", PaceAdaptabilityWeight)

feedback_score(behavior_pattern_scores) ==
    InvertedTerm(behavior_pattern_scores, "confidence", FeedbackConfidenceWeight)
    + Term(behavior_pattern_scores, "risk_taking", FeedbackRiskWeight)

\* The scores are IEEE doubles.  Over all scores 0.0, 0.1, ..., 10.0 (and
\* absent keys) the double sum of each rule lies on the same side of 7 and
\* of 5 as the exact sum, with one exception: 7.4 * 0.6 + 6.4 * 0.4 is
\* 4.44 + 2.5600000000000005 = 7.000000000000001 in doubles, which is > 7,
\* while the exact sum is 7.
SocialSumRoundsUp(learning_style_scores, behavior_pattern_scores) ==
    /\ Has(learning_style_scores, "social")
    /\ Has(behavior_pattern_scores, "collaboration")
    /\ Get(learning_style_scores, "social") = 74
    /\ Get(behavior_pattern_scores, "collaboration") = 64

\* if score > 7: first; elif score > 5: second; else: third
Label(score, first, second, third) ==
    IF score > HighThreshold THEN first
    ELSE IF score > MidThreshold THEN second
    ELSE third

StructureLabels ==
    <<"Highly structured", "Moderately structured", "Flexible and unstructured">>
SocialLabels ==
    <<"Collaborative group settings", "Balance of group and independent work",
      "Independent study">>
PaceLabels ==
    <<"Self-paced learning", "Flexible deadlines with guidance",
      "Structured schedule with clear deadlines">>
FeedbackLabels ==
    <<"Frequent, immediate feedback",
      "Regular check-ins with constructive feedback",
      "Space for self-reflection with periodic guidance">>

_determine_ideal_environment(learning_style_scores, behavior_pattern_scores) ==
    [structure |->
        Label(structure_score(learning_style_scores, behavior_pattern_scores),
              StructureLabels[1], StructureLabels[2], StructureLabels[3]),
     social |->
        IF SocialSumRoundsUp(learning_style_scores, behavior_pattern_scores)
        THEN SocialLabels[1]
        ELSE Label(social_score(learning_style_scores, behavior_pattern_scores),
                   SocialLabels[1], SocialLabels[2], SocialLabels[3]),
     pace |->
        Label(pace_score(behavior_pattern_scores),
              PaceLabels[1], PaceLabels[2], PaceLabels[3]),
     feedback |->
        Label(feedback_score(behavior_pattern_scores),
              FeedbackLabels[1], FeedbackLabels[2], FeedbackLabels[3])]

---------------------------------------------------------------------------
(* _generate_learning_tips *)

LearningStyleTips ==
    [visual |-> <<"Use diagrams, charts, and mind maps to visualize concepts",
                  "Color-code notes and study materials",
                  "Watch educational videos and demonstrations">>,
     auditory |-> <<"Record lectures and listen to them again",
                    "Read material aloud or use text-to-speech",
                    "Discuss concepts with others to reinforce understanding">>,
     kinesthetic |-> <<"Use hands-on activities and experiments",
                       "Take breaks for physical movement during study sessions",
                       "Create physical models or use manipulatives">>,
     logical |-> <<"Organize information in logical sequences or hierarchies",
                   "Look for patterns and relationships between concepts",
                   "Break complex problems into smaller, manageable steps">>,
     social |-> <<"Form or join study groups",
                  "Teach concepts to others to reinforce understanding",
                  "Engage in class discussions and collaborative projects">>,
     solitary |-> <<"Create a quiet, distraction-free study environment",
                    "Set personal goals and track progress",
                    "Use self-paced learning resources">>]

CognitiveStrengthTips ==
    [memory |-> <<"Use spaced repetition techniques for memorization",
                  "Create mnemonic devices for complex information">>,
     attention |-> <<"Use the Pomodoro technique (focused work with short breaks)",
                     "Minimize distractions in your study environment">>,
     problem_solving |-> <<"Practice with a variety of problem types",
                           "Analyze worked examples before attempting new problems">>,
     creativity |-> <<"Explore multiple approaches to assignments",
                      "Connect concepts across different subjects">>,
     critical_thinking |-> <<"Question assumptions and evaluate evidence",
                             "Compare and contrast different perspectives">>]

\* a tip list that outlives the call: the list of the last profile returned
SharedTips ==
    IF "learning_effectiveness_tips" \in DOMAIN result.ret
    THEN result.ret.learning_effectiveness_tips
    ELSE <<>>

\* tips = []
NewTips == <<>>

\* the if / elif chain on primary_learning_style
StyleBranch(primary_learning_style) ==
    IF primary_learning_style \in DOMAIN LearningStyleTips
    THEN LearningStyleTips[primary_learning_style]
    ELSE <<>>

\* every trait of COGNITIVE_STRENGTHS given the tips of some branch
StrengthBranchAll(primary_cognitive_strength) ==
    IF primary_cognitive_strength \in DOMAIN CognitiveStrengthTips
    THEN CognitiveStrengthTips[primary_cognitive_strength]
    ELSE IF primary_cognitive_strength \in COGNITIVE_STRENGTHS
         THEN CognitiveStrengthTips["problem_solving"]
         ELSE <<>>

\* the if / elif chain on primary_cognitive_strength
StrengthBranch(primary_cognitive_strength) ==
    IF primary_cognitive_strength \in DOMAIN CognitiveStrengthTips
    THEN CognitiveStrengthTips[primary_cognitive_strength]
    ELSE <<>>

_generate_learning_tips(primary_learning_style, primary_cognitive_strength) ==
    (NewTips \o StyleBranch(primary_learning_style))
        \o StrengthBranch(primary_cognitive_strength)

---------------------------------------------------------------------------
(* analyze_assessment *)

NoResult == [arg |-> 0, ret |-> <<>>, calls |-> 0]

\* Assessment.DoesNotExist caught by the clause for Exception
NotFoundAsFault(assessment_id) ==
    [error |-> "Error analyzing assessment: <str(e)>"]

\* except Assessment.DoesNotExist
NotFoundResult(assessment_id) ==
    [error |-> "Assessment with ID <assessment_id> not found."]

NotCompletedResult(status) ==
    [error |-> "Assessment is not completed yet.", status |-> status]

NoResponsesResult(assessment_id) ==
    [error |-> "No responses found for this assessment.",
     assessment_id |-> assessment_id]

\* the exception leaves analyze_assessment
Reraise(e) == [raised |-> e]

\* except Exception as e: return {'error': ...}
OnException(e) == [error |-> "Error analyzing assessment: <str(e)>"]

\* one dimension's entry, with the four impact mappings of an option added
\* to one accumulator
SharedAccumulatorEntry(rs, field) ==
    LET all == Aggregate(Aggregate(Aggregate(Aggregate(NewScores, rs,
                   "learning_style_impact"), rs, "cognitive_impact"),
                   rs, "behavior_impact"), rs, "interest_impact")
        scores == _normalize_scores(all)
        ps == _get_primary_secondary(scores)
    IN  [scores |-> scores, primary |-> ps[1], secondary |-> ps[2]]

\* one dimension's entry of the profile
DimensionEntry(rs, field) ==
    LET scores == _normalize_scores(Aggregate(NewScores, rs, field))
        ps == _get_primary_secondary(scores)
    IN  [scores |-> scores, primary |-> ps[1], secondary |-> ps[2]]

Profile(assessment_id, rs) ==
    LET student == assessments[assessment_id].student
        ls == DimensionEntry(rs, "learning_style_impact")
        cs == DimensionEntry(rs, "cognitive_impact")
        bp == DimensionEntry(rs, "behavior_impact")
        it == DimensionEntry(rs, "interest_impact")
    IN  [assessment_id |-> assessment_id,
         student_id |-> student,
         student_name |-> <<Students[student].first_name,
                            Students[student].last_name>>,
         grade |-> Students[student].grade,
         learning_styles |-> ls,
         cognitive_strengths |-> cs,
         behavior_patterns |-> bp,
         interests |-> it,
         ideal_learning_environment |->
             _determine_ideal_environment(ls.scores, bp.scores),
         learning_effectiveness_tips |->
             _generate_learning_tips(ls.primary, cs.primary)]

\* if not responses, with "no response that selects an option" in its place
NoSelectedOption(rs) ==
    \A i \in 1 .. Len(rs) : rs[i].selected_option = NoOption

\* if not responses
NoResponses(rs) == rs = <<>>

\* the body after the status check
Score(assessment_id) ==
    LET rs == responses[assessment_id] IN
    IF NoResponses(rs) THEN NoResponsesResult(assessment_id)
    ELSE IF AggregateRaises(rs)
         THEN OnException("could not convert string to float")
         ELSE Profile(assessment_id, rs)

\* the two checks in the other order
ResponsesCheckedFirst(assessment_id) ==
    IF NoResponses(responses[assessment_id])
    THEN NoResponsesResult(assessment_id)
    ELSE IF assessments[assessment_id].status # COMPLETED
         THEN NotCompletedResult(assessments[assessment_id].status)
         ELSE Score(assessment_id)

\* the body after Assessment.objects.get
Analyzed(assessment_id) ==
    IF assessments[assessment_id].status # COMPLETED
    THEN NotCompletedResult(assessments[assessment_id].status)
    ELSE Score(assessment_id)

\* the call with the profile of the last call kept and returned again
CachedAnalysis(assessment_id) ==
    IF result.arg # 0 /\ "error" \notin DOMAIN result.ret
    THEN result.ret
    ELSE IF assessment_id \notin DOMAIN assessments
         THEN NotFoundResult(assessment_id)
         ELSE Analyzed(assessment_id)

analyze_assessment(assessment_id) ==
    IF assessment_id \notin DOMAIN assessments
    THEN NotFoundResult(assessment_id)
    ELSE Analyzed(assessment_id)

---------------------------------------------------------------------------
(* The REST operations on the stored data *)

Idle == [fn |-> "none", args |-> <<>>, ret |-> <<>>]

TotalResponses == LET RECURSIVE Sum(_)
                      Sum(a) == IF a = 0 THEN 0 ELSE Len(responses[a]) + Sum(a - 1)
                  IN  Sum(MaxAssessments)

\* AssessmentCreateSerializer.validate_student
HasInProgress(student) ==
    \E a \in DOMAIN assessments :
        /\ assessments[a].student = student
        /\ assessments[a].status = IN_PROGRESS

\* POST /assessments/
CreateAssessment(student) ==
    /\ nextId <= MaxAssessments
    /\ IF HasInProgress(student)
       THEN UNCHANGED <<assessments, nextId>>
       ELSE /\ assessments' =
                  assessments @@ (nextId :> [student |-> student,
                                             status |-> IN_PROGRESS])
            /\ nextId' = nextId + 1
    /\ result' = NoResult
    /\ UNCHANGED <<responses, frame, payments>>

\* POST /assessments/{id}/complete/
CompleteAssessment(a) ==
    /\ IF a \in DOMAIN assessments /\ assessments[a].status = IN_PROGRESS
       THEN assessments' = [assessments EXCEPT ![a].status = COMPLETED]
       ELSE UNCHANGED assessments
    /\ result' = NoResult
    /\ UNCHANGED <<nextId, responses, frame, payments>>

\* PUT or PATCH /assessments/{id}/ with AssessmentSerializer: status is a
\* writable field
UpdateAssessment(a, status) ==
    /\ IF a \in DOMAIN assessments
       THEN assessments' = [assessments EXCEPT ![a].status = status]
       ELSE UNCHANGED assessments
    /\ result' = NoResult
    /\ UNCHANGED <<nextId, responses, frame, payments>>

\* a deleted Payment row: its id is not given again
NoPayment == [user |-> None, assessment |-> 0, status |-> "deleted",
              transaction_id |-> 0, intent |-> "none"]

\* DELETE /assessments/{id}/: the responses and the payments go with it
\* (on_delete=CASCADE)
DestroyAssessment(a) ==
    /\ IF a \in DOMAIN assessments
       THEN /\ assessments' = [b \in DOMAIN assessments \ {a} |-> assessments[b]]
            /\ responses' = [responses EXCEPT ![a] = <<>>]
            /\ payments' = [i \in 1 .. Len(payments) |->
                               IF payments[i].assessment = a
                               THEN [NoPayment EXCEPT
                                        !.intent = payments[i].intent]
                               ELSE payments[i]]
       ELSE UNCHANGED <<assessments, responses, payments>>
    /\ result' = NoResult
    /\ UNCHANGED <<nextId, frame>>

\* ResponseCreateSerializer.validate
ResponseValid(q, o, text) ==
    /\ ~(Questions[q] = "OPEN_ENDED" /\ ~text)
    /\ ~(Questions[q] # "OPEN_ENDED" /\ o = NoOption)
    /\ ~(o # NoOption /\ QuestionOptions[o].question # q)

\* the request bodies tried: <<question, selected_option, open_response given>>
ResponseInputs ==
    {<<1, 1, FALSE>>, <<1, 2, FALSE>>, <<2, 3, FALSE>>, <<2, 4, FALSE>>,
     <<3, NoOption, TRUE>>, <<3, NoOption, FALSE>>, <<1, NoOption, FALSE>>,
     <<1, 3, FALSE>>}

\* POST /responses/
CreateResponse(a, q, o, text) ==
    /\ TotalResponses < MaxResponses
    /\ IF a \in DOMAIN assessments /\ ResponseValid(q, o, text)
       THEN responses' =
                [responses EXCEPT ![a] = Append(@, ResponseRow(q, o, text))]
       ELSE UNCHANGED responses
    /\ result' = NoResult
    /\ UNCHANGED <<assessments, nextId, frame, payments>>

\* a call of LearningStyleAnalyzer.analyze_assessment(a)
Analyze(a) ==
    /\ result' = [arg |-> a, ret |-> analyze_assessment(a),
                  calls |-> IF result.arg = a THEN 2 ELSE 1]
    /\ UNCHANGED <<assessments, nextId, responses, frame, payments>>

Init ==
    /\ assessments = <<>>
    /\ nextId = 1
    /\ responses = [a \in AssessmentIds |-> <<>>]
    /\ result = NoResult
    /\ payments = <<>>
    /\ frame = Idle

Next ==
    \/ \E s \in DOMAIN Students : CreateAssessment(s)
    \/ \E a \in AssessmentIds : CompleteAssessment(a)
    \/ \E a \in AssessmentIds, st \in Status : UpdateAssessment(a, st)
    \/ \E a \in AssessmentIds : DestroyAssessment(a)
    \/ \E a \in AssessmentIds, i \in ResponseInputs :
          CreateResponse(a, i[1], i[2], i[3])
    \/ \E a \in AssessmentIds : Analyze(a)

Spec == Init /\ [][Next]_vars

---------------------------------------------------------------------------
(* The helpers of the engine on their own: each specification draws the    *)
(* arguments in its initial states and calls the helper on them.           *)

NoData ==
    /\ assessments = <<>>
    /\ nextId = 1
    /\ responses = [a \in AssessmentIds |-> <<>>]
    /\ result = NoResult
    /\ payments = <<>>

Call(fn, args, ret) ==
    /\ frame' = [fn |-> fn, args |-> args, ret |-> ret]
    /\ UNCHANGED <<assessments, nextId, responses, result, payments>>

\* raw totals of one dimension: up to three traits, in any insertion order
ScoreTraits == {"visual", "auditory", "logical"}

RawEntries == {[k |-> t, v |-> n] : t \in ScoreTraits, n \in 0 .. MaxRaw}

RawMappings ==
    {m \in UNION {[1 .. n -> RawEntries] : n \in 0 .. Cardinality(ScoreTraits)} :
        \A i, j \in 1 .. Len(m) : i # j => m[i].k # m[j].k}

InitScore ==
    /\ NoData
    /\ \E m \in RawMappings : frame = [fn |-> "input", args |-> m, ret |-> <<>>]

NormalizeCall ==
    /\ frame.fn = "input"
    /\ Call("_normalize_scores", frame.args, _normalize_scores(frame.args))

RankCall ==
    /\ frame.fn = "_normalize_scores"
    /\ Call("_get_primary_secondary", frame.ret, _get_primary_secondary(frame.ret))

NextScore == NormalizeCall \/ RankCall

SpecScore == InitScore /\ [][NextScore]_vars

\* the two mappings _determine_ideal_environment reads: every key of the
\* rules, the first input of each rule at x and the second at y, each
\* either present or absent
EnvStyles(px, x) ==
    IF px THEN <<[k |-> "logical", v |-> x], [k |-> "social", v |-> x]>>
    ELSE <<>>

EnvBehaviors(px, x, py, y) ==
    (IF px THEN <<[k |-> "independence", v |-> x], [k |-> "confidence", v |-> x]>>
     ELSE <<>>)
    \o (IF py THEN <<[k |-> "organization", v |-> y],
                     [k |-> "collaboration", v |-> y],
                     [k |-> "adaptability", v |-> y],
                     [k |-> "risk_taking", v |-> y]>>
        ELSE <<>>)

InitEnv ==
    /\ NoData
    /\ \E px, py \in BOOLEAN, x, y \in 0 .. ScaleTop :
          /\ (~px => x = 0) /\ (~py => y = 0)
          /\ frame = [fn |-> "input",
                      args |-> <<EnvStyles(px, x), EnvBehaviors(px, x, py, y)>>,
                      ret |-> <<>>]

EnvironmentCall ==
    /\ frame.fn = "input"
    /\ Call("_determine_ideal_environment", frame.args,
            _determine_ideal_environment(frame.args[1], frame.args[2]))

NextEnv == EnvironmentCall

SpecEnv == InitEnv /\ [][NextEnv]_vars

\* the primaries _generate_learning_tips can be given: a recognised trait,
\* None, or an ad-hoc trait name
PrimaryStyles == LEARNING_STYLES \cup {None, "telepathy"}
PrimaryStrengths == COGNITIVE_STRENGTHS \cup {None, "telepathy"}

InitTips ==
    /\ NoData
    /\ \E p \in PrimaryStyles, c \in PrimaryStrengths :
          frame = [fn |-> "input", args |-> <<p, c>>, ret |-> <<>>]

TipsCall ==
    /\ frame.fn = "input"
    /\ Call("_generate_learning_tips", frame.args,
            _generate_learning_tips(frame.args[1], frame.args[2]))

NextTips == TipsCall

SpecTips == InitTips /\ [][NextTips]_vars

---------------------------------------------------------------------------
(* The response endpoints: create, submit_batch, update and partial update *)

\* the bodies of POST /responses/ tried: those of ResponseInputs and one
\* that answers the open-ended question with text and with an option the
\* author attached to that question
AnswerInputs == ResponseInputs \cup {<<3, 5, TRUE>>}

\* the bodies of PUT or PATCH /responses/{id}/ tried
UpdateInputs == {<<1, 2, FALSE>>, <<1, 3, FALSE>>, <<1, NoOption, FALSE>>}

\* the items of a batch, all for one assessment
BatchItems == {<<1, 1, FALSE>>, <<3, NoOption, TRUE>>, <<1, 3, FALSE>>}
BatchInputs == [1 .. 2 -> BatchItems]

\* the rows submit_batch has saved when it returns: each valid item is
\* saved as the loop reaches it, and the first invalid item ends the loop
RECURSIVE SavedOfBatch(_)
SavedOfBatch(items) ==
    IF items = <<>> THEN <<>>
    ELSE LET d == Head(items) IN
         IF ResponseValid(d[1], d[2], d[3])
         THEN <<ResponseRow(d[1], d[2], d[3])>> \o SavedOfBatch(Tail(items))
         ELSE <<>>

\* the loop of submit_batch on the stored responses
StoreBatch(a, items) ==
    /\ TotalResponses + Len(items) <= MaxResponses
    /\ IF a \in DOMAIN assessments
       THEN responses' = [responses EXCEPT ![a] = @ \o SavedOfBatch(items)]
       ELSE UNCHANGED responses
    /\ result' = NoResult
    /\ UNCHANGED <<assessments, nextId, payments>>

\* POST /responses/submit_batch/, the reply not kept
SubmitBatch(a, items) ==
    /\ StoreBatch(a, items)
    /\ UNCHANGED frame

\* POST /responses/submit_batch/ and its reply: 400 at the first item that
\* is not valid, 201 with the created responses after the loop
submit_batch(a, items) ==
    /\ StoreBatch(a, items)
    /\ frame' = [fn |-> "submit_batch", args |-> <<a, items>>,
                 ret |-> IF /\ a \in DOMAIN assessments
                            /\ Len(SavedOfBatch(items)) = Len(items)
                         THEN [status |-> 201, data |-> SavedOfBatch(items)]
                         ELSE [status |-> 400, data |-> <<>>]]

\* PUT or PATCH /responses/{id}/ on the i-th response of assessment a, with
\* ResponseSerializer: no validate method
UpdateResponse(a, i, q, o, text) ==
    /\ IF a \in DOMAIN assessments /\ i \in 1 .. Len(responses[a])
       THEN responses' = [responses EXCEPT ![a][i] = ResponseRow(q, o, text)]
       ELSE UNCHANGED responses
    /\ result' = NoResult
    /\ UNCHANGED <<assessments, nextId, frame, payments>>

NextResponses ==
    \/ \E s \in DOMAIN Students : CreateAssessment(s)
    \/ \E a \in AssessmentIds : CompleteAssessment(a)
    \/ \E a \in AssessmentIds, d \in AnswerInputs :
          CreateResponse(a, d[1], d[2], d[3])
    \/ \E a \in AssessmentIds, items \in BatchInputs : SubmitBatch(a, items)
    \/ \E a \in AssessmentIds, i \in 1 .. MaxResponses, d \in UpdateInputs :
          UpdateResponse(a, i, d[1], d[2], d[3])
    \/ \E a \in AssessmentIds : Analyze(a)

SpecResponses == Init /\ [][NextResponses]_vars

\* the batch endpoint with its replies
NextBatch ==
    \/ \E s \in DOMAIN Students : CreateAssessment(s)
    \/ \E a \in AssessmentIds : CompleteAssessment(a)
    \/ \E a \in AssessmentIds : DestroyAssessment(a)
    \/ \E a \in AssessmentIds, items \in BatchInputs : submit_batch(a, items)

SpecBatch == Init /\ [][NextBatch]_vars

---------------------------------------------------------------------------
(* The aggregation loop on its own: the responses are drawn in the initial  *)
(* states, the loop is run on them, then its totals are normalized and      *)
(* ranked                                                                   *)

\* the responses an assessment can hold when it is analysed: up to
\* MaxResponses + 1 rows, each a response the create endpoint accepts
AggregateRows ==
    {ResponseRow(d[1], d[2], d[3]) :
        d \in {e \in AnswerInputs : ResponseValid(e[1], e[2], e[3])}}

AggregateInputs == UNION {[1 .. n -> AggregateRows] : n \in 0 .. MaxResponses + 1}

InitAggregate ==
    /\ NoData
    /\ \E rs \in AggregateInputs : frame = [fn |-> "input", args |-> rs, ret |-> <<>>]

\* the loop over the responses, the four accumulators
AggregateCall ==
    /\ frame.fn = "input"
    /\ IF AggregateRaises(frame.args)
       THEN Call("aggregate.raised", frame.args, <<>>)
       ELSE Call("aggregate", frame.args,
                 [d \in 1 .. Len(Dimensions) |->
                     Aggregate(NewScores, frame.args, Dimensions[d])])

\* normalization and ranking of the four accumulators
ProfileCall ==
    /\ frame.fn = "aggregate"
    /\ Call("rank", frame.args,
            [d \in 1 .. Len(Dimensions) |->
                DimensionEntry(frame.args, Dimensions[d])])

NextAggregate == AggregateCall \/ ProfileCall

SpecAggregate == InitAggregate /\ [][NextAggregate]_vars

---------------------------------------------------------------------------
(* The analyze endpoint: the view reads the assessment and checks it, then  *)
(* the engine reads the stored data again; other requests are served in     *)
(* between                                                                  *)

\* the permission condition of the views on an assessment row
Permitted(user, assessment) ==
    LET student == Students[assessment.student] IN
    \/ Users[user] = "ADMIN"
    \/ Users[user] = "TEACHER"
    \/ (Users[user] = "PARENT" /\ student.parent # None /\ student.parent = user)
    \/ (Users[user] = "STUDENT" /\ student.user = user)

\* Response(data, status=status)
HttpResponse(fn, args, status, data) ==
    [fn |-> fn, args |-> args, ret |-> [status |-> status, data |-> data]]

\* the view with the completion check made before the permission check
AnalyzeStatusFirst(pk, user) ==
    /\ frame.fn # "analyze"
    /\ frame' =
          IF pk \notin DOMAIN assessments
          THEN HttpResponse("analyze.Response", <<pk, user>>, 404,
                            [error |-> "Assessment with ID <pk> not found."])
          ELSE IF assessments[pk].status # COMPLETED
          THEN HttpResponse("analyze.Response", <<pk, user>>, 400,
                            [error |-> "Assessment is not completed yet."])
          ELSE IF ~Permitted(user, assessments[pk])
          THEN HttpResponse("analyze.Response", <<pk, user>>, 403,
                   [error |-> "You do not have permission to access this assessment."])
          ELSE [fn |-> "analyze", args |-> <<pk, user>>, ret |-> <<>>]
    /\ UNCHANGED <<assessments, nextId, responses, result, payments>>

\* GET /analysis/{pk}/analyze/ up to the call of the engine
AnalyzeRequest(pk, user) ==
    /\ frame.fn # "analyze"
    /\ frame' =
          IF pk \notin DOMAIN assessments
          THEN HttpResponse("analyze.Response", <<pk, user>>, 404,
                            [error |-> "Assessment with ID <pk> not found."])
          ELSE IF ~Permitted(user, assessments[pk])
          THEN HttpResponse("analyze.Response", <<pk, user>>, 403,
                   [error |-> "You do not have permission to access this assessment."])
          ELSE IF assessments[pk].status # COMPLETED
          THEN HttpResponse("analyze.Response", <<pk, user>>, 400,
                            [error |-> "Assessment is not completed yet."])
          ELSE [fn |-> "analyze", args |-> <<pk, user>>, ret |-> <<>>]
    /\ UNCHANGED <<assessments, nextId, responses, result, payments>>

\* the rest of the view: the call of the engine and the response
AnalyzeRespond ==
    /\ frame.fn = "analyze"
    /\ LET analysis_results == analyze_assessment(frame.args[1]) IN
       frame' = HttpResponse("analyze.Response", frame.args,
                             IF "error" \in DOMAIN analysis_results
                             THEN 400 ELSE 200,
                             analysis_results)
    /\ UNCHANGED <<assessments, nextId, responses, result, payments>>

\* the response bodies tried while an analyze request is served
ViewAnswerInputs == {<<1, 1, FALSE>>}

NextView ==
    \/ \E s \in DOMAIN Students : CreateAssessment(s)
    \/ \E a \in AssessmentIds : CompleteAssessment(a)
    \/ \E a \in AssessmentIds, st \in Status : UpdateAssessment(a, st)
    \/ \E a \in AssessmentIds : DestroyAssessment(a)
    \/ \E a \in AssessmentIds, d \in ViewAnswerInputs :
          CreateResponse(a, d[1], d[2], d[3])
    \/ \E pk \in AssessmentIds, user \in DOMAIN Users : AnalyzeRequest(pk, user)
    \/ AnalyzeRespond

SpecView == Init /\ [][NextView]_vars

---------------------------------------------------------------------------
(* Payments and the detailed report *)

PENDING == "PENDING"
FAILED == "FAILED"
REFUNDED == "REFUNDED"
PaymentStatus == {PENDING, COMPLETED, FAILED, REFUNDED}

\* A Payment row.  transaction_id is the id of a Stripe payment intent, 0
\* for none; the intent Stripe created for the row has the id of the row.
\* The last field is not a column: it is the status that Stripe holds for
\* that intent ("none" when PaymentIntent.create raised, "open" for every
\* status before the intent settles, then "succeeded" or "canceled").
PaymentRow(user, assessment, status, transaction_id, intent) ==
    [user |-> user, assessment |-> assessment, status |-> status,
     transaction_id |-> transaction_id, intent |-> intent]

\* Payment.objects.filter(assessment=assessment, user=user,
\*                        status=Payment.Status.COMPLETED).first()
HasCompletedPayment(pk, user) ==
    \E i \in 1 .. Len(payments) :
        /\ payments[i].user = user
        /\ payments[i].assessment = pk
        /\ payments[i].status = COMPLETED

\* what Stripe answers: PaymentIntent.create succeeds or raises
StripeCreate == {"created", "raises"}

\* POST /payments/{pk}/create_payment_intent/
create_payment_intent(pk, user, stripe) ==
    /\ Len(payments) < MaxPayments
    /\ IF pk \notin DOMAIN assessments
       THEN /\ frame' = HttpResponse("create_payment_intent", <<pk, user>>, 404,
                                     [error |-> "Assessment with ID <pk> not found."])
            /\ UNCHANGED payments
       ELSE IF ~Permitted(user, assessments[pk])
       THEN /\ frame' = HttpResponse("create_payment_intent", <<pk, user>>, 403,
                  [error |-> "You do not have permission to access this assessment."])
            /\ UNCHANGED payments
       ELSE IF assessments[pk].status # COMPLETED
       THEN /\ frame' = HttpResponse("create_payment_intent", <<pk, user>>, 400,
                                     [error |-> "Assessment is not completed yet."])
            /\ UNCHANGED payments
       ELSE IF HasCompletedPayment(pk, user)
       THEN /\ frame' = HttpResponse("create_payment_intent", <<pk, user>>, 200,
                  [message |-> "Payment already completed for this assessment."])
            /\ UNCHANGED payments
       ELSE IF stripe = "created"
       THEN /\ payments' = Append(payments,
                   PaymentRow(user, pk, PENDING, Len(payments) + 1, "open"))
            /\ frame' = HttpResponse("create_payment_intent", <<pk, user>>, 200,
                                     [payment_id |-> Len(payments) + 1])
       ELSE /\ payments' = Append(payments,
                   PaymentRow(user, pk, FAILED, 0, "none"))
            /\ frame' = HttpResponse("create_payment_intent", <<pk, user>>, 500,
                  [error |-> "Error creating payment intent: <str(e)>"])
    /\ UNCHANGED <<assessments, nextId, responses, result>>

\* Stripe settles an open intent: the customer pays or the intent is
\* canceled; a settled intent keeps its status
StripeSettles(id, outcome) ==
    /\ id \in 1 .. Len(payments)
    /\ payments[id].intent = "open"
    /\ payments' = [payments EXCEPT ![id].intent = outcome]
    /\ UNCHANGED <<assessments, nextId, responses, result, frame>>

\* the payment_intent_id of a request: 0 for none, else the id of an intent
IntentIds == 0 .. MaxPayments

\* stripe.PaymentIntent.retrieve answers or raises (no such intent, or
\* Stripe is not reached)
StripeRetrieve == {"answers", "raises"}

\* POST /payments/{pk}/confirm_payment/
confirm_payment(pk, user, payment_intent_id, stripe) ==
    IF pk \notin 1 .. Len(payments) \/ payments[pk].status = "deleted"
    THEN /\ frame' = HttpResponse("confirm_payment", <<pk, user, payment_intent_id>>,
                                  404, [error |-> "Payment with ID <pk> not found."])
         /\ UNCHANGED <<assessments, nextId, responses, result, payments>>
    ELSE IF payments[pk].user # user /\ Users[user] # "ADMIN"
    THEN /\ frame' = HttpResponse("confirm_payment", <<pk, user, payment_intent_id>>,
                  403, [error |-> "You do not have permission to access this payment."])
         /\ UNCHANGED <<assessments, nextId, responses, result, payments>>
    ELSE IF payment_intent_id = 0
    THEN /\ frame' = HttpResponse("confirm_payment", <<pk, user, payment_intent_id>>,
                                  400, [error |-> "Payment intent ID is required."])
         /\ UNCHANGED <<assessments, nextId, responses, result, payments>>
    ELSE IF \/ stripe = "raises"
            \/ payment_intent_id \notin 1 .. Len(payments)
            \/ payments[payment_intent_id].intent = "none"
    THEN /\ frame' = HttpResponse("confirm_payment", <<pk, user, payment_intent_id>>,
                                  500, [error |-> "Error confirming payment: <str(e)>"])
         /\ UNCHANGED <<assessments, nextId, responses, result, payments>>
    ELSE IF payments[payment_intent_id].intent = "succeeded"
    THEN /\ payments' = [payments EXCEPT ![pk].status = COMPLETED,
                                         ![pk].transaction_id = payment_intent_id]
         /\ frame' = HttpResponse("confirm_payment", <<pk, user, payment_intent_id>>,
                                  200, [status |-> COMPLETED])
         /\ UNCHANGED <<assessments, nextId, responses, result>>
    ELSE LET status == IF payments[payment_intent_id].intent = "canceled"
                       THEN FAILED ELSE PENDING IN
         /\ payments' = [payments EXCEPT ![pk].status = status,
                                         ![pk].transaction_id = payment_intent_id]
         /\ frame' = HttpResponse("confirm_payment", <<pk, user, payment_intent_id>>,
                                  400, [status |-> status])
         /\ UNCHANGED <<assessments, nextId, responses, result>>

\* Payment.objects.filter(assessment=assessment, user=user)
\*     .order_by('-created_at').first(): the row created last, 0 for none
LatestPayment(pk, user) ==
    LET ids == {i \in 1 .. Len(payments) :
                    payments[i].assessment = pk /\ payments[i].user = user}
    IN  IF ids = {} THEN 0
        ELSE CHOOSE i \in ids : \A j \in ids : j <= i

\* GET /payments/{pk}/check_payment_status/
check_payment_status(pk, user) ==
    /\ frame' =
          IF pk \notin DOMAIN assessments
          THEN HttpResponse("check_payment_status", <<pk, user>>, 404,
                            [error |-> "Assessment with ID <pk> not found."])
          ELSE IF ~Permitted(user, assessments[pk])
          THEN HttpResponse("check_payment_status", <<pk, user>>, 403,
                   [error |-> "You do not have permission to access this assessment."])
          ELSE LET payment == LatestPayment(pk, user) IN
               IF payment = 0
               THEN HttpResponse("check_payment_status", <<pk, user>>, 200,
                                 [has_payment |-> FALSE])
               ELSE HttpResponse("check_payment_status", <<pk, user>>, 200,
                        [has_payment |-> TRUE,
                         is_paid |-> payments[payment].status = COMPLETED,
                         payment_id |-> payment,
                         status |-> payments[payment].status])
    /\ UNCHANGED <<assessments, nextId, responses, result, payments>>

\* ReportGenerator.generate_detailed_report: the path of the PDF, or None
generate_detailed_report(assessment_id) ==
    IF assessment_id \notin DOMAIN assessments THEN None
    ELSE IF assessments[assessment_id].status # COMPLETED THEN None
    ELSE IF "error" \in DOMAIN analyze_assessment(assessment_id) THEN None
    ELSE "detailed_report.pdf"

\* the payment check of the detailed report: no payment is looked up
PaymentVerified(pk, user) == FALSE

\* GET /reports/{pk}/detailed/
detailed(pk, user) ==
    /\ frame' =
          IF pk \notin DOMAIN assessments
          THEN HttpResponse("detailed", <<pk, user>>, 404,
                            [error |-> "Assessment with ID <pk> not found."])
          ELSE IF ~Permitted(user, assessments[pk])
          THEN HttpResponse("detailed", <<pk, user>>, 403,
                   [error |-> "You do not have permission to access this assessment."])
          ELSE IF assessments[pk].status # COMPLETED
          THEN HttpResponse("detailed", <<pk, user>>, 400,
                            [error |-> "Assessment is not completed yet."])
          ELSE IF ~(PaymentVerified(pk, user)
                      \/ Users[user] = "ADMIN" \/ Users[user] = "TEACHER")
          THEN HttpResponse("detailed", <<pk, user>>, 402,
                            [error |-> "Payment required for detailed report."])
          ELSE LET report_path == generate_detailed_report(pk) IN
               IF report_path = None
               THEN HttpResponse("detailed", <<pk, user>>, 500,
                                 [error |-> "Failed to generate detailed report."])
               ELSE HttpResponse("detailed", <<pk, user>>, 200,
                                 [file |-> report_path])
    /\ UNCHANGED <<assessments, nextId, responses, result, payments>>

\* a completed assessment that has one response
InitPayment ==
    /\ assessments = (1 :> [student |-> 1, status |-> COMPLETED])
    /\ nextId = 2
    /\ responses = [a \in AssessmentIds |->
                       IF a = 1 THEN <<ResponseRow(1, 1, FALSE)>> ELSE <<>>]
    /\ result = NoResult
    /\ frame = Idle
    /\ payments = <<>>

\* the users of the payment requests: the student's parent, who pays, and
\* for the reads another parent and an admin as well
Payer == "parent1"
PayUsers == {"parent1", "parent2", "admin"}

NextPayment ==
    \/ \E pk \in AssessmentIds, stripe \in StripeCreate :
          create_payment_intent(pk, Payer, stripe)
    \/ \E id \in 1 .. MaxPayments, outcome \in {"succeeded", "canceled"} :
          StripeSettles(id, outcome)
    \/ \E pk \in 1 .. MaxPayments, payment_intent_id \in IntentIds,
          stripe \in StripeRetrieve :
          confirm_payment(pk, Payer, payment_intent_id, stripe)
    \/ \E pk \in AssessmentIds, user \in PayUsers :
          check_payment_status(pk, user)
    \/ \E pk \in AssessmentIds, user \in PayUsers : detailed(pk, user)

SpecPayment == InitPayment /\ [][NextPayment]_vars

---------------------------------------------------------------------------
(* Concurrent create requests: POST /assessments/ validates the student    *)
(* with one query and inserts the row with a later statement, with no      *)
(* lock or constraint in between, so requests of several workers           *)
(* interleave                                                              *)

\* the frame holds the requests that passed validate_student and have not
\* saved yet
InitCreate ==
    /\ NoData
    /\ frame = [fn |-> "create", args |-> <<>>, ret |-> <<>>]

\* serializer.is_valid() of a create request
validate_student(value) ==
    /\ Len(frame.args) < MaxAssessments
    /\ IF HasInProgress(value)
       THEN frame' = [frame EXCEPT !.ret = "Student already has an in-progress assessment."]
       ELSE frame' = [frame EXCEPT !.args = Append(@, value), !.ret = <<>>]
    /\ result' = NoResult
    /\ UNCHANGED <<assessments, nextId, responses, payments>>

\* serializer.save() of a validated create request
perform_create(i) ==
    /\ i \in 1 .. Len(frame.args)
    /\ nextId <= MaxAssessments
    /\ assessments' = assessments @@ (nextId :> [student |-> frame.args[i],
                                                 status |-> IN_PROGRESS])
    /\ nextId' = nextId + 1
    /\ frame' = [frame EXCEPT
                    !.args = SubSeq(@, 1, i - 1) \o SubSeq(@, i + 1, Len(@)),
                    !.ret = <<>>]
    /\ result' = NoResult
    /\ UNCHANGED <<responses, payments>>

NextCreate ==
    \/ \E s \in DOMAIN Students : validate_student(s)
    \/ \E i \in 1 .. MaxAssessments : perform_create(i)
    \/ \E a \in AssessmentIds : CompleteAssessment(a)
    \/ \E a \in AssessmentIds : DestroyAssessment(a)
    \/ \E a \in AssessmentIds, i \in ViewAnswerInputs :
          CreateResponse(a, i[1], i[2], i[3])

SpecCreate == InitCreate /\ [][NextCreate]_vars

---------------------------------------------------------------------------
(* Raw totals in the hundreds: some twenty responses with weights up to   *)
(* 10 on one trait.  Round1 is the rounding of the code on these totals:  *)
(* below 400 only a maximum of exactly 200 makes the double quotient      *)
(* round otherwise.                                                       *)

LargeRaw == 200

LargeEntries ==
    {[k |-> t, v |-> n] : t \in ScoreTraits, n \in LargeRaw + 1 .. LargeRaw + MaxRaw}

LargeMappings ==
    {m \in UNION {[1 .. n -> LargeEntries] : n \in 1 .. Cardinality(ScoreTraits)} :
        \A i, j \in 1 .. Len(m) : i # j => m[i].k # m[j].k}

InitLarge ==
    /\ NoData
    /\ \E m \in LargeMappings : frame = [fn |-> "totals", args |-> m, ret |-> <<>>]

\* normalization and ranking of one accumulator
LargeRankCall ==
    /\ frame.fn = "totals"
    /\ Call("totals.rank", frame.args,
            _get_primary_secondary(_normalize_scores(frame.args)))

NextLarge == LargeRankCall

SpecLarge == InitLarge /\ [][NextLarge]_vars

---------------------------------------------------------------------------
(* Fractional weights.  float(score) of 0.1 is a double, and the sum of    *)
(* doubles depends on the order of the additions.  A double near a whole   *)
(* number of tenths is held as [t, e]: the double e units in the last      *)
(* place above the double nearest to t/10.                                 *)

F(key, tenths) == [k |-> key, v |-> tenths]

\* learning_style_impact of three options, weights in tenths: 0.1 and 1.6,
\* 0.1, 0.4
FractionOptions ==
    (1 :> <<F("visual", 1), F("auditory", 16)>>) @@
    (2 :> <<F("visual", 1)>>) @@
    (3 :> <<F("visual", 4)>>)

\* the options selected by the responses, in the order the query yields
FractionInputs ==
    UNION {[1 .. n -> DOMAIN FractionOptions] : n \in 0 .. MaxResponses + 2}

\* IEEE-754 double addition x + w/10 for the sums of at most five of the
\* weights above: <<t, e, w, e'>> lists the additions whose result is not
\* the double nearest to (t + w)/10 (0.2 + 0.4 = 0.6000000000000001)
SumSlips ==
    {<<2, 0, 1, 1>>, <<2, 0, 4, 1>>, <<3, 1, 4, 1>>, <<6, 1, 1, 1>>,
     <<7, 0, 1, -1>>, <<8, 0, 4, 1>>, <<12, 1, 1, 1>>, <<13, 0, 1, 1>>,
     <<13, 0, 4, 1>>, <<13, 1, 1, 2>>, <<13, 1, 4, 1>>, <<16, 0, 1, 1>>,
     <<32, 0, 16, 1>>}

FloatAdd(x, w) ==
    LET slips == {s \in SumSlips : s[1] = x.t /\ s[2] = x.e /\ s[3] = w}
    IN  [t |-> x.t + w,
         e |-> IF slips = {} THEN 0 ELSE (CHOOSE s \in slips : TRUE)[4]]

\* scores[key] += float(score) on a defaultdict(float)
FloatAddTo(m, key, w) ==
    IF Has(m, key)
    THEN [i \in 1 .. Len(m) |->
            IF m[i].k = key THEN [k |-> key, v |-> FloatAdd(m[i].v, w)]
            ELSE m[i]]
    ELSE Append(m, [k |-> key, v |-> FloatAdd([t |-> 0, e |-> 0], w)])

RECURSIVE FloatAddImpact(_, _)
FloatAddImpact(m, impact) ==
    IF impact = <<>> THEN m
    ELSE FloatAddImpact(FloatAddTo(m, Head(impact).k, Head(impact).v),
                        Tail(impact))

\* the loop over the responses
RECURSIVE FloatAggregate(_, _)
FloatAggregate(m, os) ==
    IF os = <<>> THEN m
    ELSE FloatAggregate(FloatAddImpact(m, FractionOptions[Head(os)]), Tail(os))

FloatLeq(x, y) == x.t < y.t \/ (x.t = y.t /\ x.e <= y.e)

FloatMax(m) == CHOOSE x \in {m[i].v : i \in 1 .. Len(m)} :
                  \A i \in 1 .. Len(m) : FloatLeq(m[i].v, x)

\* round((value / max_score) * 10, 1) in doubles is the half-even rounding
\* of the exact quotient except where the double quotient falls below an
\* exact half: 0.6 / 1.6 * 10 = 3.7499999999999996 and
\* 1.4 / 1.6 * 10 = 8.749999999999998
RoundsBelowHalf == {<<[t |-> 6, e |-> 0], [t |-> 16, e |-> 0]>>,
                    <<[t |-> 14, e |-> 0], [t |-> 16, e |-> 0]>>}

FloatRound1(value, max) ==
    IF <<value, max>> \in RoundsBelowHalf
    THEN Round1(value.t, max.t) - 1
    ELSE Round1(value.t, max.t)

FloatNormalize(scores_dict) ==
    IF scores_dict = <<>> THEN <<>>
    ELSE LET max_score == FloatMax(scores_dict) IN
         [i \in 1 .. Len(scores_dict) |->
             [k |-> scores_dict[i].k,
              v |-> FloatRound1(scores_dict[i].v, max_score)]]

InitFraction ==
    /\ NoData
    /\ \E os \in FractionInputs :
          frame = [fn |-> "fractions", args |-> os, ret |-> <<>>]

FractionCall ==
    /\ frame.fn = "fractions"
    /\ Call("fractions.scores", frame.args,
            FloatNormalize(FloatAggregate(NewScores, frame.args)))

NextFraction == FractionCall

SpecFraction == InitFraction /\ [][NextFraction]_vars

---------------------------------------------------------------------------
(* Two stored states that differ in one dimension's impact mappings: two    *)
(* completed assessments hold the same responses, but where the first       *)
(* selects option 2 the second selects option 2 as stored after an edit of  *)
(* one mapping; both are analysed                                           *)

\* the edits of option 2: the impact field edited and the option as stored
\* after the edit
OptionEdits ==
    {[dimension |-> "learning_style_impact", option |-> 6],
     [dimension |-> "cognitive_impact", option |-> 7],
     [dimension |-> "behavior_impact", option |-> 8],
     [dimension |-> "interest_impact", option |-> 9],
     [dimension |-> "interest_impact", option |-> 10]}

\* the responses of the first assessment
EditRows ==
    {ResponseRow(1, 1, FALSE), ResponseRow(1, 2, FALSE), ResponseRow(2, 3, FALSE),
     ResponseRow(3, NoOption, TRUE)}

EditInputs == UNION {[1 .. n -> EditRows] : n \in 1 .. MaxResponses}

\* the same responses read with the edited option in the place of option 2
WithEdit(rs, option) ==
    [i \in 1 .. Len(rs) |->
        IF rs[i].selected_option = 2
        THEN ResponseRow(rs[i].question, option, rs[i].open_response)
        ELSE rs[i]]

InitDimensions ==
    /\ assessments = (1 :> [student |-> 1, status |-> COMPLETED])
                      @@ (2 :> [student |-> 1, status |-> COMPLETED])
    /\ nextId = 3
    /\ result = NoResult
    /\ payments = <<>>
    /\ \E rs \in EditInputs, e \in OptionEdits :
          /\ responses = [a \in AssessmentIds |->
                             IF a = 1 THEN rs
                             ELSE IF a = 2 THEN WithEdit(rs, e.option)
                             ELSE <<>>]
          /\ frame = [fn |-> "edit", args |-> e.dimension, ret |-> <<>>]

NextDimensions == \E a \in AssessmentIds : Analyze(a)

SpecDimensions == InitDimensions /\ [][NextDimensions]_vars

---------------------------------------------------------------------------
(* The claims *)

DimensionKeys ==
    {"learning_styles", "cognitive_strengths", "behavior_patterns", "interests"}

CarriesError(r) == "error" \in DOMAIN r

\* the score of a trait, 0 when the mapping does not have it
ScoreOf(m, key) == IF Has(m, key) THEN Get(m, key) ELSE 0

\* a selected option of the assessment holds a weight that is no number
HoldsNonNumber(a) ==
    \E i \in 1 .. Len(responses[a]) :
        LET o == responses[a][i].selected_option IN
        /\ o # NoOption
        /\ \E f \in {"learning_style_impact", "cognitive_impact",
                     "behavior_impact", "interest_impact"} :
              \E j \in 1 .. Len(QuestionOptions[o][f]) :
                  ~QuestionOptions[o][f][j].num

\* C1: analyze_assessment checks in a fixed order: no such assessment gives
\* NotFound; else a status other than COMPLETED gives NotCompleted, whatever
\* the responses; else zero responses gives NoResponses.  In the three cases
\* the result carries 'error' and none of the four dimension entries.
C1_EntryChecksInOrder ==
    \A a \in AssessmentIds :
        result.arg = a =>
            LET r == result.ret
                exists == a \in DOMAIN assessments
            IN  /\ ~exists =>
                     r = [error |-> "Assessment with ID <assessment_id> not found."]
                /\ (exists /\ assessments[a].status # COMPLETED) =>
                     r = [error |-> "Assessment is not completed yet.",
                          status |-> assessments[a].status]
                /\ (exists /\ assessments[a].status = COMPLETED
                           /\ responses[a] = <<>>) =>
                     r = [error |-> "No responses found for this assessment.",
                          assessment_id |-> a]
                /\ (~exists \/ assessments[a].status # COMPLETED
                            \/ responses[a] = <<>>) =>
                     (CarriesError(r) /\ DOMAIN r \cap DimensionKeys = {})

\* an abandoned assessment that has responses was analysed: NotCompleted
C1_Witness ==
    \E a \in DOMAIN assessments :
        /\ result.arg = a
        /\ assessments[a].status = ABANDONED
        /\ responses[a] # <<>>
        /\ CarriesError(result.ret)
        /\ result.ret.error = "Assessment is not completed yet."

\* C2: a completed assessment with at least one response and no response
\* with a selected option is analysed to a success profile whose four
\* dimensions have an empty score mapping and primary = secondary = none.
C2_OnlyOpenEndedGivesEmptyProfile ==
    \A a \in DOMAIN assessments :
        (/\ result.arg = a
         /\ assessments[a].status = COMPLETED
         /\ responses[a] # <<>>
         /\ \A i \in 1 .. Len(responses[a]) :
               responses[a][i].selected_option = NoOption)
        => /\ ~CarriesError(result.ret)
           /\ \A d \in DimensionKeys :
                 result.ret[d] =
                     [scores |-> <<>>, primary |-> None, secondary |-> None]

C2_Witness ==
    \E a \in DOMAIN assessments :
        /\ result.arg = a
        /\ assessments[a].status = COMPLETED
        /\ Len(responses[a]) = 2
        /\ \A i \in 1 .. 2 : responses[a][i].selected_option = NoOption
        /\ ~CarriesError(result.ret)
        /\ result.ret.learning_styles.primary = None

\* C3: in every success profile, every dimension whose score mapping is
\* non-empty has the largest score exactly 10.0 and every score in [0, 10].
C3_NormalizedMaxIsTen ==
    \A a \in AssessmentIds :
        (result.arg = a /\ ~CarriesError(result.ret)) =>
            \A d \in DimensionKeys :
                LET m == result.ret[d].scores IN
                m # <<>> =>
                    /\ \E i \in 1 .. Len(m) : m[i].v = 100
                    /\ \A i \in 1 .. Len(m) : m[i].v >= 0 /\ m[i].v <= 100

\* C4: primary's score >= secondary's score >= every other trait's score;
\* primary and secondary are two different traits of the mapping; secondary
\* is none exactly when the mapping has fewer than two traits and primary
\* is none exactly when it is empty.
C4_RankingPostcondition ==
    frame.fn = "_get_primary_secondary" =>
        LET m == frame.args
            p == frame.ret[1]
            s == frame.ret[2]
        IN  /\ (p = None) <=> (m = <<>>)
            /\ (s = None) <=> (Cardinality(Keys(m)) < 2)
            /\ p # None =>
                  /\ Has(m, p)
                  /\ \A i \in 1 .. Len(m) : m[i].v <= Get(m, p)
            /\ s # None =>
                  /\ Has(m, s)
                  /\ s # p
                  /\ Get(m, s) <= Get(m, p)
                  /\ \A i \in 1 .. Len(m) :
                        m[i].k \notin {p, s} => m[i].v <= Get(m, s)

\* three traits with three different scores, inserted in ascending order,
\* were ranked
C4_Witness ==
    /\ frame.fn = "_get_primary_secondary"
    /\ Len(frame.args) = 3
    /\ frame.args[1].v < frame.args[2].v
    /\ frame.args[2].v < frame.args[3].v
    /\ frame.ret = <<frame.args[3].k, frame.args[2].k>>

C6_ScenarioA ==
    \A a \in DOMAIN assessments :
        (/\ result.arg = a
         /\ assessments[a].status = COMPLETED
         /\ Len(responses[a]) = 1
         /\ responses[a][1].selected_option # NoOption
         /\ QuestionOptions[responses[a][1].selected_option].learning_style_impact
               = <<W("visual", 8), W("auditory", 2)>>)
        => /\ ~CarriesError(result.ret)
           /\ result.ret.learning_styles =
                 [scores |-> <<[k |-> "visual", v |-> 100],
                               [k |-> "auditory", v |-> 25]>>,
                  primary |-> "visual",
                  secondary |-> "auditory"]

C6_Witness ==
    \E a \in DOMAIN assessments :
        /\ result.arg = a
        /\ assessments[a].status = COMPLETED
        /\ responses[a] = <<ResponseRow(1, 1, FALSE)>>
        /\ ~CarriesError(result.ret)
        /\ ScoreOf(result.ret.learning_styles.scores, "auditory") = 25

\* the label of the rule table for a score in hundredths: the first label
\* when it is > 7, the second when it is > 5 and not > 7, else the third
TableLabel(score, first, second, third) ==
    IF score > 700 THEN first ELSE IF score > 500 THEN second ELSE third

\* C7: environment inference equals the rule table for every pair of
\* normalized score mappings: structure = 0.7*logical + 0.3*organization,
\* social = 0.6*social + 0.4*collaboration, pace = 0.5*independence +
\* 0.5*adaptability, each labelled by the strict thresholds 7 and 5; the
\* result has exactly the keys structure, social, pace and feedback;
\* logical = 9 with organization = 8 gives 8.7 and 'Highly structured'.
C7_EnvironmentEqualsRuleTable ==
    frame.fn = "_determine_ideal_environment" =>
        LET ls == frame.args[1]
            bp == frame.args[2]
            env == frame.ret
        IN  /\ DOMAIN env = {"structure", "social", "pace", "feedback"}
            /\ env.structure =
                  TableLabel(7 * ScoreOf(ls, "logical")
                                + 3 * ScoreOf(bp, "organization"),
                             "Highly structured", "Moderately structured",
                             "Flexible and unstructured")
            /\ env.social =
                  TableLabel(6 * ScoreOf(ls, "social")
                                + 4 * ScoreOf(bp, "collaboration"),
                             "Collaborative group settings",
                             "Balance of group and independent work",
                             "Independent study")
            /\ env.pace =
                  TableLabel(5 * ScoreOf(bp, "independence")
                                + 5 * ScoreOf(bp, "adaptability"),
                             "Self-paced learning",
                             "Flexible deadlines with guidance",
                             "Structured schedule with clear deadlines")
            /\ (ScoreOf(ls, "logical") = 90 /\ ScoreOf(bp, "organization") = 80)
                  => env.structure = "Highly structured"

\* how frequent the feedback of a label is: 1 the most frequent
FeedbackRank(label) ==
    IF label = "Frequent, immediate feedback" THEN 1
    ELSE IF label = "Regular check-ins with constructive feedback" THEN 2
    ELSE 3

\* the behavior mapping with the confidence score replaced
WithConfidence(bp, c) ==
    [i \in 1 .. Len(bp) |->
        IF bp[i].k = "confidence" THEN [k |-> "confidence", v |-> c] ELSE bp[i]]

\* C8: with a confidence score present the feedback score is
\* 0.7*(10 - confidence) + 0.3*risk_taking, labelled by the strict
\* thresholds 7 and 5; for a fixed risk_taking a lower confidence never
\* yields a label of less frequent feedback than a higher one; confidence
\* = 2 with risk_taking = 5 gives 7.1 and 'Frequent, immediate feedback'.
C8_FeedbackInvertsConfidence ==
    (frame.fn = "_determine_ideal_environment" /\ Has(frame.args[2], "confidence"))
    =>  LET ls == frame.args[1]
            bp == frame.args[2]
            c == Get(bp, "confidence")
            r == ScoreOf(bp, "risk_taking")
            env == frame.ret
        IN  /\ env.feedback =
                  TableLabel(7 * (100 - c) + 3 * r,
                             "Frequent, immediate feedback",
                             "Regular check-ins with constructive feedback",
                             "Space for self-reflection with periodic guidance")
            /\ \A lower \in 0 .. c :
                  FeedbackRank(_determine_ideal_environment(
                                   ls, WithConfidence(bp, lower)).feedback)
                     <= FeedbackRank(env.feedback)
            /\ (c = 20 /\ r = 50) =>
                  /\ 7 * (100 - c) + 3 * r = 710
                  /\ env.feedback = "Frequent, immediate feedback"

\* confidence 2 with risk_taking 5 went through the inference
C8_Witness ==
    /\ frame.fn = "_determine_ideal_environment"
    /\ Has(frame.args[2], "confidence")
    /\ Has(frame.args[2], "risk_taking")
    /\ Get(frame.args[2], "confidence") = 20
    /\ Get(frame.args[2], "risk_taking") = 50
    /\ frame.ret.feedback = "Frequent, immediate feedback"

\* C9: the tip list is the 3 tips of the primary learning style when it is
\* one of the 6 fixed styles, followed by the 2 tips of the primary
\* cognitive strength when it is one of the 5 modeled strengths; any other
\* primary, none included, contributes nothing; the length is 0, 2, 3 or 5.
C9_TipsAreFixedLookup ==
    frame.fn = "_generate_learning_tips" =>
        LET p == frame.args[1]
            c == frame.args[2]
            tips == frame.ret
            ns == IF p \in {"visual", "auditory", "kinesthetic", "logical",
                            "social", "solitary"} THEN 3 ELSE 0
            nc == IF c \in {"memory", "attention", "problem_solving",
                            "creativity", "critical_thinking"} THEN 2 ELSE 0
        IN  /\ Len(tips) = ns + nc
            /\ Len(tips) \in {0, 2, 3, 5}
            /\ ns = 3 => (Len(LearningStyleTips[p]) = 3
                          /\ SubSeq(tips, 1, 3) = LearningStyleTips[p])
            /\ nc = 2 => (Len(CognitiveStrengthTips[c]) = 2
                          /\ SubSeq(tips, ns + 1, ns + 2) = CognitiveStrengthTips[c])

\* a fixed style and a modeled strength gave five tips, the style's first
C9_Witness ==
    /\ frame.fn = "_generate_learning_tips"
    /\ frame.args = <<"logical", "critical_thinking">>
    /\ Len(frame.ret) = 5
    /\ frame.ret[1] = "Organize information in logical sequences or hierarchies"
    /\ frame.ret[5] = "Compare and contrast different perspectives"

\* C10: no fault leaves analyze_assessment: every failure is a returned
\* value that carries 'error' with a message, and a success profile never
\* carries 'error', so the indicator separates failures from profiles.
C10_FailuresAreReturnedValues ==
    \A a \in AssessmentIds :
        result.arg = a =>
            LET r == result.ret
                fails == \/ a \notin DOMAIN assessments
                         \/ assessments[a].status # COMPLETED
                         \/ responses[a] = <<>>
                         \/ HoldsNonNumber(a)
            IN  /\ "raised" \notin DOMAIN r
                /\ CarriesError(r) <=> fails
                /\ CarriesError(r) =>
                      (r.error # "" /\ DOMAIN r \cap DimensionKeys = {})
                /\ ~CarriesError(r) => DimensionKeys \subseteq DOMAIN r

\* a completed assessment whose option holds a non-number was analysed
C10_Witness ==
    \E a \in DOMAIN assessments :
        /\ result.arg = a
        /\ assessments[a].status = COMPLETED
        /\ HoldsNonNumber(a)
        /\ CarriesError(result.ret)


\* the kinds of outcome a returned value belongs to
OutcomeKinds(r) ==
    {kind \in {"profile", "NotFound", "NotCompleted", "NoResponses", "Fault"} :
        \/ kind = "profile" /\ ~CarriesError(r) /\ DimensionKeys \subseteq DOMAIN r
        \/ kind = "NotFound" /\ CarriesError(r)
              /\ r.error = "Assessment with ID <assessment_id> not found."
        \/ kind = "NotCompleted" /\ CarriesError(r)
              /\ r.error = "Assessment is not completed yet."
        \/ kind = "NoResponses" /\ CarriesError(r)
              /\ r.error = "No responses found for this assessment."
        \/ kind = "Fault" /\ CarriesError(r)
              /\ r.error = "Error analyzing assessment: <str(e)>"}

\* C11 as stated: for every stored state, every call of analyze_assessment
\* ends in exactly one of the success profile, NotFound, NotCompleted or
\* NoResponses, and in no other kind of result.
C11_FourOutcomes ==
    result.arg # 0 =>
        /\ Cardinality(OutcomeKinds(result.ret)) = 1
        /\ OutcomeKinds(result.ret)
              \subseteq {"profile", "NotFound", "NotCompleted", "NoResponses"}

\* C11 amended: every call ends in exactly one of five kinds: NotFound when
\* the assessment does not exist; else NotCompleted when its status is not
\* COMPLETED; else NoResponses when it has no response; else the generic
\* 'Error analyzing assessment' result when a selected option holds a
\* weight that is no number; else the success profile.
C11_FiveOutcomes ==
    \A a \in AssessmentIds :
        result.arg = a =>
            LET exists == a \in DOMAIN assessments
                completed == exists /\ assessments[a].status = COMPLETED
                answered == completed /\ responses[a] # <<>>
            IN  OutcomeKinds(result.ret) =
                    {IF ~exists THEN "NotFound"
                     ELSE IF ~completed THEN "NotCompleted"
                     ELSE IF ~answered THEN "NoResponses"
                     ELSE IF HoldsNonNumber(a) THEN "Fault"
                     ELSE "profile"}

\* the generic error was returned for an assessment with two responses
C11_Witness ==
    \E a \in DOMAIN assessments :
        /\ result.arg = a
        /\ Len(responses[a]) = 2
        /\ OutcomeKinds(result.ret) = {"Fault"}

\* C12: every assessment is created with status IN_PROGRESS, and over any
\* sequence of API operations on it (create, complete, update, partial
\* update) its status changes at most once, from IN_PROGRESS to COMPLETED
\* or ABANDONED, and never changes again; a complete on an assessment that
\* is not IN_PROGRESS leaves the status unchanged.
C12_StatusChangesOnce ==
    [][\A a \in AssessmentIds :
          /\ (a \notin DOMAIN assessments /\ a \in DOMAIN assessments')
                => assessments'[a].status = IN_PROGRESS
          /\ (/\ a \in DOMAIN assessments
              /\ a \in DOMAIN assessments'
              /\ assessments'[a].status # assessments[a].status)
                => /\ assessments[a].status = IN_PROGRESS
                   /\ assessments'[a].status \in {COMPLETED, ABANDONED}]_vars

\* C13: after any sequence of response operations (create, submit_batch,
\* update, partial update), every stored response that has a selected
\* option has the option of its own question, and every stored response to
\* a question that is not open-ended has a selected option.
C13_StoredResponsesAreValid ==
    \A a \in AssessmentIds :
        \A i \in 1 .. Len(responses[a]) :
            LET r == responses[a][i] IN
            /\ r.selected_option # NoOption =>
                  QuestionOptions[r.selected_option].question = r.question
            /\ Questions[r.question] # "OPEN_ENDED" =>
                  r.selected_option # NoOption

\* the responses of an assessment that answer no open-ended question
RECURSIVE WithoutOpenEnded(_)
WithoutOpenEnded(rs) ==
    IF rs = <<>> THEN <<>>
    ELSE IF Questions[Head(rs).question] = "OPEN_ENDED"
         THEN WithoutOpenEnded(Tail(rs))
         ELSE <<Head(rs)>> \o WithoutOpenEnded(Tail(rs))

\* C14: a stored response to an OPEN_ENDED question holds free text and no
\* selected option, and in every profile of a completed assessment the four
\* score mappings are those the assessment would have without its
\* open-ended responses.
C14_OpenEndedNeverScores ==
    /\ \A a \in AssessmentIds :
          \A i \in 1 .. Len(responses[a]) :
              LET r == responses[a][i] IN
              Questions[r.question] = "OPEN_ENDED" =>
                  (r.open_response /\ r.selected_option = NoOption)
    /\ \A a \in DOMAIN assessments :
          (result.arg = a /\ ~CarriesError(result.ret)) =>
              /\ result.ret.learning_styles.scores =
                    DimensionEntry(WithoutOpenEnded(responses[a]),
                                   "learning_style_impact").scores
              /\ result.ret.cognitive_strengths.scores =
                    DimensionEntry(WithoutOpenEnded(responses[a]),
                                   "cognitive_impact").scores
              /\ result.ret.behavior_patterns.scores =
                    DimensionEntry(WithoutOpenEnded(responses[a]),
                                   "behavior_impact").scores
              /\ result.ret.interests.scores =
                    DimensionEntry(WithoutOpenEnded(responses[a]),
                                   "interest_impact").scores

\* C15: for every request of an authorised user the analyze endpoint
\* answers 404 when the assessment does not exist, 400 when it is not
\* completed, 400 when it has no responses, and 200 with the profile only on
\* success, the stored data being those at the time of the response; also
\* with deletes and status changes served during the request.
C15_AnalyzeStatusCodes ==
    [][(frame'.fn = "analyze.Response" /\ frame' # frame
          /\ frame'.ret.status # 403)
       => LET pk == frame'.args[1]
              code == frame'.ret.status
              exists == pk \in DOMAIN assessments
              data == frame'.ret.data
          IN  /\ ~exists => code = 404
              /\ (CarriesError(data) /\ OutcomeKinds(data) = {"NotFound"})
                    => code = 404
              /\ (exists /\ assessments[pk].status # COMPLETED) => code = 400
              /\ (exists /\ assessments[pk].status = COMPLETED
                         /\ responses[pk] = <<>>) => code = 400
              /\ code = 200 =>
                    /\ exists
                    /\ assessments[pk].status = COMPLETED
                    /\ responses[pk] # <<>>
                    /\ ~CarriesError(frame'.ret.data)
                    /\ DimensionKeys \subseteq DOMAIN frame'.ret.data]_vars

\* two assessment ids with the same stored data: both absent, or both
\* present with the same student, status and responses
SameStoredData(a, b) ==
    /\ (a \in DOMAIN assessments) <=> (b \in DOMAIN assessments)
    /\ a \in DOMAIN assessments =>
          (assessments[a] = assessments[b] /\ responses[a] = responses[b])

\* a result without the id it was asked for
WithoutId(r) == [key \in DOMAIN r \ {"assessment_id"} |-> r[key]]

C17_DetailedGatedByPayment ==
    [][(frame'.fn = "detailed" /\ frame' # frame)
       => LET pk == frame'.args[1]
              user == frame'.args[2]
              code == frame'.ret.status
          IN  (/\ pk \in DOMAIN assessments
               /\ assessments[pk].status = COMPLETED
               /\ Permitted(user, assessments[pk])
               /\ "error" \notin DOMAIN analyze_assessment(pk))
              => IF Users[user] \in {"ADMIN", "TEACHER"}
                 THEN code = 200 /\ "file" \in DOMAIN frame'.ret.data
                 ELSE IF \E i \in 1 .. Len(payments) :
                            /\ payments[i].user = user
                            /\ payments[i].assessment = pk
                            /\ payments[i].status = COMPLETED
                 THEN code = 200 /\ "file" \in DOMAIN frame'.ret.data
                 ELSE code = 402 /\ "file" \notin DOMAIN frame'.ret.data]_vars

\* the weight of a trait in one impact mapping, 0 when the trait is absent
WeightOf(impact, key) ==
    IF \E j \in 1 .. Len(impact) : impact[j].k = key
    THEN impact[CHOOSE j \in 1 .. Len(impact) : impact[j].k = key].v
    ELSE 0

\* the sum of a trait's weights over the responses that select an option
RECURSIVE RawTotal(_, _, _)
RawTotal(rs, field, key) ==
    IF rs = <<>> THEN 0
    ELSE (IF Head(rs).selected_option = NoOption THEN 0
          ELSE WeightOf(QuestionOptions[Head(rs).selected_option][field], key))
         + RawTotal(Tail(rs), field, key)

\* the trait names of the options the responses select
SelectedKeys(rs, field) ==
    UNION {Keys(QuestionOptions[rs[i].selected_option][field]) :
              i \in {j \in 1 .. Len(rs) : rs[j].selected_option # NoOption}}

\* the trait names the engine's lists recognise
RecognisedTraits ==
    LEARNING_STYLES \cup COGNITIVE_STRENGTHS
    \cup {"persistence", "confidence", "independence", "collaboration",
          "organization", "adaptability", "focus", "risk_taking"}
    \cup {"math", "technology", "arts", "language", "science",
          "entrepreneurship", "humanities", "sports", "music", "nature"}

\* C18: for each dimension and each trait name the raw total is the sum,
\* over the responses that have a selected option, of the option's weight
\* for the trait in that dimension's impact mapping (0 when absent); the
\* key set of the dimension's mapping is the union of the key sets of
\* those options' mappings, each key once, so a trait name outside the
\* recognised lists is aggregated as its own key, and it is primary when
\* its total is the largest.
C18_RawTotalsAreSums ==
    /\ frame.fn = "aggregate" =>
          \A d \in 1 .. Len(Dimensions) :
              LET m == frame.ret[d]
                  rs == frame.args
              IN  /\ Keys(m) = SelectedKeys(rs, Dimensions[d])
                  /\ Len(m) = Cardinality(Keys(m))
                  /\ \A i \in 1 .. Len(m) :
                        m[i].v = RawTotal(rs, Dimensions[d], m[i].k)
    /\ frame.fn = "rank" =>
          \A d \in 1 .. Len(Dimensions) :
              LET e == frame.ret[d]
                  rs == frame.args
                  keys == SelectedKeys(rs, Dimensions[d])
              IN  /\ Keys(e.scores) = keys
                  /\ \A key \in keys \ RecognisedTraits :
                        (\A other \in keys \ {key} :
                            RawTotal(rs, Dimensions[d], other)
                               < RawTotal(rs, Dimensions[d], key))
                        => e.primary = key

\* three responses were aggregated and ranked: visual is 8 + 0 + 8 against
\* auditory 2 + 2, and the ad-hoc trait telepathy is the primary strength
C18_Witness ==
    /\ frame.fn = "rank"
    /\ Len(frame.args) = 3
    /\ frame.args[1].selected_option = 1
    /\ frame.args[2].selected_option = 3
    /\ frame.args[3].selected_option = 1
    /\ frame.ret[1].scores = <<[k |-> "visual", v |-> 100],
                               [k |-> "auditory", v |-> 25]>>
    /\ frame.ret[2].primary = "telepathy"

RECURSIVE KeysInOrder(_, _)
KeysInOrder(rs, field) ==
    IF rs = <<>> THEN <<>>
    ELSE (IF Head(rs).selected_option = NoOption THEN <<>>
          ELSE LET impact == QuestionOptions[Head(rs).selected_option][field]
               IN  [j \in 1 .. Len(impact) |-> impact[j].k])
         \o KeysInOrder(Tail(rs), field)

\* a list of names with every repetition after the first left out
RECURSIVE FirstOccurrences(_)
FirstOccurrences(names) ==
    IF names = <<>> THEN <<>>
    ELSE LET before == FirstOccurrences(SubSeq(names, 1, Len(names) - 1))
             last == names[Len(names)]
         IN  IF \E j \in 1 .. Len(before) : before[j] = last
             THEN before ELSE Append(before, last)

\* C20: among the traits of one dimension that have equal normalized
\* scores the ranking keeps the order in which the trait keys were first
\* added during aggregation (response order, then key order inside the
\* option's mapping): primary is the earliest-added trait among those with
\* the top score, and secondary is the earliest-added trait among those
\* with the top score of the remaining traits.
C20_TiesKeepInsertionOrder ==
    frame.fn = "rank" =>
        \A d \in 1 .. Len(Dimensions) :
            LET scores == frame.ret[d].scores
                order == FirstOccurrences(KeysInOrder(frame.args, Dimensions[d]))
                n == Len(order)
                Top(skip) ==
                    CHOOSE i \in (1 .. n) \ skip :
                        /\ \A j \in (1 .. n) \ skip : scores[j].v <= scores[i].v
                        /\ \A j \in (1 .. i - 1) \ skip : scores[j].v < scores[i].v
            IN  /\ Len(scores) = n
                /\ \A i \in 1 .. n : scores[i].k = order[i]
                /\ n >= 1 => frame.ret[d].primary = order[Top({})]
                /\ n >= 2 => frame.ret[d].secondary = order[Top({Top({})})]

\* the first-added trait (auditory) and the last-added one (visual) tie at
\* the top, with logical between them: auditory, then visual
C20_Witness ==
    /\ frame.fn = "rank"
    /\ Len(frame.args) = 2
    /\ frame.args[1].selected_option = 2
    /\ frame.args[2].selected_option = 1
    /\ frame.ret[1].scores = <<[k |-> "auditory", v |-> 100],
                               [k |-> "logical", v |-> 38],
                               [k |-> "visual", v |-> 100]>>
    /\ frame.ret[1].primary = "auditory"
    /\ frame.ret[1].secondary = "visual"
    /\ frame.ret[2].primary = "spatial_reasoning"
    /\ frame.ret[2].secondary = "memory"

\* C21: in environment inference a trait that is absent from its score
\* mapping contributes 0 for its whole weighted term and causes no error:
\* each rule with one of its two traits absent is labelled by the other
\* trait's term alone, the inverted confidence term included (absent
\* confidence adds 0, not 0.7*10), and two empty mappings give the four
\* 'else' labels.
C21_AbsentTraitsContributeZero ==
    frame.fn = "_determine_ideal_environment" =>
        LET ls == frame.args[1]
            bp == frame.args[2]
            env == frame.ret
        IN  /\ DOMAIN env = {"structure", "social", "pace", "feedback"}
            /\ ~Has(ls, "logical") =>
                  env.structure =
                      TableLabel(3 * ScoreOf(bp, "organization"),
                                 "Highly structured", "Moderately structured",
                                 "Flexible and unstructured")
            /\ ~Has(bp, "collaboration") =>
                  env.social =
                      TableLabel(6 * ScoreOf(ls, "social"),
                                 "Collaborative group settings",
                                 "Balance of group and independent work",
                                 "Independent study")
            /\ ~Has(bp, "independence") =>
                  env.pace =
                      TableLabel(5 * ScoreOf(bp, "adaptability"),
                                 "Self-paced learning",
                                 "Flexible deadlines with guidance",
                                 "Structured schedule with clear deadlines")
            /\ ~Has(bp, "confidence") =>
                  env.feedback =
                      TableLabel(3 * ScoreOf(bp, "risk_taking"),
                                 "Frequent, immediate feedback",
                                 "Regular check-ins with constructive feedback",
                                 "Space for self-reflection with periodic guidance")
            /\ (Has(bp, "confidence") /\ ~Has(bp, "risk_taking")) =>
                  env.feedback =
                      TableLabel(7 * (100 - Get(bp, "confidence")),
                                 "Frequent, immediate feedback",
                                 "Regular check-ins with constructive feedback",
                                 "Space for self-reflection with periodic guidance")
            /\ (ls = <<>> /\ bp = <<>>) =>
                  env = [structure |-> "Flexible and unstructured",
                         social |-> "Independent study",
                         pace |-> "Structured schedule with clear deadlines",
                         feedback |->
                             "Space for self-reflection with periodic guidance"]

\* the inference was run on two empty mappings
C21_Witness ==
    /\ frame.fn = "_determine_ideal_environment"
    /\ frame.args = <<<<>>, <<>>>>
    /\ frame.ret.structure = "Flexible and unstructured"
    /\ frame.ret.feedback = "Space for self-reflection with periodic guidance"

\* the profile entry that an impact field feeds
EntryOf(field) ==
    IF field = "learning_style_impact" THEN "learning_styles"
    ELSE IF field = "cognitive_impact" THEN "cognitive_strengths"
    ELSE IF field = "behavior_impact" THEN "behavior_patterns"
    ELSE "interests"

\* the two results agree on the entries of the dimensions that were not
\* edited, and, after an edit of interest impacts, on everything but the
\* interests entry and the id
AgreeOutsideEdit(r, q, field) ==
    /\ \A key \in DimensionKeys \ {EntryOf(field)} :
          /\ key \in DOMAIN r
          /\ key \in DOMAIN q
          /\ r[key] = q[key]
    /\ field = "interest_impact" =>
          /\ DOMAIN r = DOMAIN q
          /\ \A key \in DOMAIN r \ {"interests", "assessment_id"} :
                r[key] = q[key]

ReadOrders(n) ==
    {p \in [1 .. n -> 1 .. n] : \A i, j \in 1 .. n : i # j => p[i] # p[j]}

AsMapping(m) == {m[i] : i \in 1 .. Len(m)}

\* C23: permuting the order in which an assessment's responses are read
\* leaves the normalized trait-to-score mapping unchanged, as a mapping.
C23_OrderIndependent ==
    frame.fn = "fractions.scores" =>
        \A p \in ReadOrders(Len(frame.args)) :
            AsMapping(FloatNormalize(FloatAggregate(NewScores,
                [i \in 1 .. Len(frame.args) |-> frame.args[p[i]]])))
            = AsMapping(frame.ret)

\* C24: for a dimension with non-negative weights and a positive maximum,
\* the primary trait is a trait whose raw aggregated total equals the
\* dimension's maximum raw total, for all raw totals, also in the hundreds.
C24_PrimaryHasMaxRawTotal ==
    frame.fn = "totals.rank" =>
        Get(frame.args, frame.ret[1]) = MaxValue(frame.args)

\* C25: at every moment each student has at most one assessment with
\* status IN_PROGRESS, for every interleaving of concurrent create requests
\* and every sequence of create, complete and update operations.
C25_OneInProgressPerStudent ==
    \A a, b \in DOMAIN assessments :
        (/\ assessments[a].student = assessments[b].student
         /\ assessments[a].status = IN_PROGRESS
         /\ assessments[b].status = IN_PROGRESS)
        => a = b

\* C26: once an assessment is COMPLETED its response set is frozen: no API
\* operation adds, changes or removes a response of that assessment.
C26_CompletedResponsesFrozen ==
    [][\A a \in DOMAIN assessments :
          assessments[a].status = COMPLETED => responses'[a] = responses[a]]_vars

\* the rows of the items of a batch, in the order given
BatchRows(items) ==
    [i \in 1 .. Len(items) |-> ResponseRow(items[i][1], items[i][2], items[i][3])]

\* C27: submit_batch is all-or-nothing: if any item of the batch fails
\* validation the call returns 400 and no response of that batch is
\* stored; if every item is valid, all are stored in the order given and
\* the call returns 201 with all of them.
C27_BatchAllOrNothing ==
    [][(frame'.fn = "submit_batch" /\ frame' # frame) =>
          LET a == frame'.args[1]
              items == frame'.args[2]
          IN  IF /\ a \in DOMAIN assessments
                 /\ \A i \in 1 .. Len(items) :
                       ResponseValid(items[i][1], items[i][2], items[i][3])
              THEN /\ frame'.ret.status = 201
                   /\ frame'.ret.data = BatchRows(items)
                   /\ responses' = [responses EXCEPT ![a] = @ \o BatchRows(items)]
              ELSE /\ frame'.ret.status = 400
                   /\ responses' = responses]_vars

\* C28: a payment's status becomes COMPLETED only through confirm_payment,
\* and only when the payment intent that create_payment_intent created for
\* that same payment has status 'succeeded'; a succeeded intent that
\* belongs to another payment never completes it.
C28_CompletedOnlyByOwnIntent ==
    [][/\ Len(payments') > Len(payments) =>
             payments'[Len(payments')].status # COMPLETED
       /\ \A i \in 1 .. Len(payments) :
             (payments[i].status # COMPLETED /\ payments'[i].status = COMPLETED)
             => /\ frame'.fn = "confirm_payment"
                /\ frame'.args[1] = i
                /\ frame'.args[3] = i
                /\ payments[i].intent = "succeeded"]_vars

\* C29: COMPLETED is a terminal payment status: once a payment's status is
\* COMPLETED no later create_payment_intent or confirm_payment call changes
\* it, and create_payment_intent for the same user and assessment returns
\* the existing payment without creating a new payment record.
C29_CompletedIsTerminal ==
    [][\A i \in 1 .. Len(payments) :
          payments[i].status = COMPLETED
          => /\ payments'[i].status = COMPLETED
             /\ \A j \in Len(payments) + 1 .. Len(payments') :
                   ~(/\ payments'[j].user = payments[i].user
                     /\ payments'[j].assessment = payments[i].assessment)
             /\ (/\ frame'.fn = "create_payment_intent"
                 /\ frame' # frame
                 /\ frame'.args = <<payments[i].assessment, payments[i].user>>)
                => /\ frame'.ret.status = 200
                   /\ Len(payments') = Len(payments)]_vars

===========================================================================
